---- MODULE Spec2Model ----
EXTENDS Integers, Sequences, FiniteSets, Bags, TLC

\* ------------------------------------------------------------------
\* Model of extensions/ql-vscode/src/databases.ts: the database
\* resolver (findDataset / findSourceArchive / resolveDatabase /
\* resolveRawDataset / resolveDatabaseContents), DatabaseItemImpl and
\* DatabaseManager.
\* ------------------------------------------------------------------

\* Bounds of the model.
MaxCount == 2
MaxItems == 2
MaxPending == 1
MaxLen == 3
MaxRefreshes == 2

\* ---------------- State ------------------------------------------

\* Inputs and result of one resolveDatabaseContents call.
VARIABLES rUri, rLay, rRes
rvars == <<rUri, rLay, rRes>>

\* Item state, input and result of one resolveSourceFile call.
VARIABLES sIgn, sHasContents, sArchive, sPresent, sFile, sRes
svars == <<sIgn, sHasContents, sArchive, sPresent, sFile, sRes>>

\* DatabaseManager, its items and the workspace state.
VARIABLES
  disk,      \* the file system: layout of each location
  items,     \* DatabaseManager._databaseItems (item ids, in order)
  iUri,      \* DatabaseItemImpl.databaseUri per item id
  iIgn,      \* DatabaseItemImpl.options.ignoreSourceArchive per item id
  iContents, \* DatabaseItemImpl._contents per item id
  iError,    \* DatabaseItemImpl._error per item id
  nextId,    \* the next DatabaseItemImpl to be constructed
  current,   \* DatabaseManager._currentDatabaseItem (0 = undefined)
  pCur,      \* workspaceState CURRENT_DB
  pList,     \* workspaceState DB_LIST
  tasks,     \* in-flight refresh() calls (bag of [item, caller, stage, ok])
  lpc,       \* position of the loadPersistedState() loop
  lList,     \* `databases` read by loadPersistedState
  lCur,      \* `currentDatabaseUri` read by loadPersistedState
  lIds,      \* items created by loadPersistedState, in loop order
  lOks,      \* outcome of the refresh of each of them
  ev,        \* notifications fired by the last step, in order
  lastOp     \* the operation the last step completed

gvars == <<disk, items, iUri, iIgn, iContents, iError, nextId, current, pCur,
           pList, tasks, lpc, lList, lCur, lIds, lOks, ev, lastOp>>

vars == <<rvars, svars, gvars>>

\* ---------------- Uris, errors, contents --------------------------

zipArchiveScheme == "codeql-zip-archive"

NoUri == [scheme |-> "none", path |-> ""]

UriFile(p) == [scheme |-> "file", path |-> p]

NoError == [type |-> "none", msg |-> <<>>]

\* new InvalidDatabaseError(msg) / new Error(msg)
InvalidDatabaseError(m) == [type |-> "InvalidDatabase", msg |-> m]
GenericError(m) == [type |-> "Error", msg |-> m]

\* DatabaseKind
Database == "Database"
RawDataset == "RawDataset"

NoContents == [kind |-> "none", name |-> "", datasetUri |-> NoUri,
               sourceArchiveUri |-> NoUri, dbSchemeUri |-> NoUri]

Ok(c) == [ok |-> TRUE, contents |-> c, err |-> NoError]
Throw(e) == [ok |-> FALSE, contents |-> NoContents, err |-> e]

\* ---------------- On-disk layout ----------------------------------
\* A database directory on disk, as seen by the globs and pathExists
\* probes of the resolver:
\*   exists      fs.pathExists(databasePath)
\*   topDb       number of `db-*/` directories directly in the root
\*   workDb      number of `working/db-*/` directories
\*   rootSchema  number of `*.dbscheme` files directly in the root
\*   dsSchema    number of `*.dbscheme` files in the first db-* directory
\*   src         which of the source-archive candidates exist

\* Basename of the paths used as database locations.
Basename(p) ==
  CASE p = "/w/db1" -> "db1"
    [] p = "/w/t.testproj" -> "t.testproj"
    [] OTHER -> "db"

ExtName(p) == IF p = "/w/t.testproj" THEN ".testproj" ELSE ""

NumStr(n) == CASE n = 0 -> "0" [] n = 1 -> "1" [] n = 2 -> "2" [] OTHER -> "3"

\* findDataset(parentDirectory): glob('db-*/') and glob('working/db-*/')
\* keep the '/' that ends the pattern, and path.join keeps it too, so
\* the dataset path ends in '/'.
FindDataset(p, lay) ==
  IF lay.topDb = 0 /\ lay.workDb = 0
  THEN Throw(InvalidDatabaseError(<<"'", p, "' does not contain a dataset directory.">>))
  ELSE IF lay.topDb > 0
       THEN Ok(UriFile(p \o "/db-1/"))
       ELSE Ok(UriFile(p \o "/working/db-1/"))

\* findSourceArchive(databasePath): `src` then `output/src_archive`,
\* directory form before the `.zip` form at each stem.
FindSourceArchive(p, lay) ==
  IF "src" \in lay.src THEN UriFile(p \o "/src")
  ELSE IF "src.zip" \in lay.src THEN [scheme |-> zipArchiveScheme, path |-> p \o "/src.zip"]
  ELSE IF "output/src_archive" \in lay.src THEN UriFile(p \o "/output/src_archive")
  ELSE IF "output/src_archive.zip" \in lay.src
       THEN [scheme |-> zipArchiveScheme, path |-> p \o "/output/src_archive.zip"]
  ELSE NoUri

\* resolveDatabase(databasePath): findDataset throws when no dataset
\* directory is found; otherwise a (truthy) contents object is returned.
ResolveDatabase(p, lay) ==
  LET ds == FindDataset(p, lay) IN
  IF ~ds.ok THEN ds
  ELSE Ok([kind |-> Database, name |-> Basename(p), datasetUri |-> ds.contents,
           sourceArchiveUri |-> FindSourceArchive(p, lay), dbSchemeUri |-> NoUri])

\* resolveRawDataset(datasetPath)
ResolveRawDataset(p, lay) ==
  IF lay.rootSchema > 0
  THEN Ok([kind |-> RawDataset, name |-> Basename(p), datasetUri |-> UriFile(p),
           sourceArchiveUri |-> NoUri, dbSchemeUri |-> NoUri])
  ELSE Ok(NoContents)

\* getDbSchemeFiles(dbDirectory): the number of schema files found.
DbSchemeCount(dsPath, p, lay) ==
  IF dsPath = p THEN lay.rootSchema ELSE lay.dsSchema

\* path.resolve(dir, f) for an absolute dir: a trailing '/' of dir is
\* dropped before f is joined.
PathResolve(dir, f) ==
  LET d == IF Len(dir) > 1 /\ SubSeq(dir, Len(dir), Len(dir)) = "/"
           THEN SubSeq(dir, 1, Len(dir) - 1) ELSE dir
  IN d \o "/" \o f

\* The dbscheme check at the end of resolveDatabaseContents.
CheckDbScheme(p, c, n) ==
  LET dbPath == c.datasetUri.path IN
  IF n = 0
  THEN Throw(InvalidDatabaseError(<<"Database '", p, "' does not contain a QL dbscheme under '", dbPath, "'.">>))
  ELSE IF n > 1
  THEN Throw(InvalidDatabaseError(<<"Database '", p, "' contains multiple QL dbschemes under '", dbPath, "'.">>))
  ELSE Ok([c EXCEPT !.dbSchemeUri = UriFile(PathResolve(dbPath, "x.dbscheme"))])

\* resolveDatabaseContents(uri)
ResolveDatabaseContents(uri, lay) ==
  IF uri.scheme # "file"
  THEN Throw(GenericError(<<"Database URI scheme '", uri.scheme, "' not supported; only 'file' URIs are supported.">>))
  ELSE IF ~lay.exists
  THEN Throw(InvalidDatabaseError(<<"Database '", uri.path, "' does not exist.">>))
  ELSE
    LET p == uri.path
        rd == ResolveDatabase(p, lay)
        r == IF ~rd.ok THEN rd
             ELSE IF rd.contents # NoContents THEN rd
             ELSE ResolveRawDataset(p, lay)
    IN IF ~r.ok THEN r
       ELSE IF r.contents = NoContents
       THEN Throw(InvalidDatabaseError(<<"'", p, "' is not a valid database.">>))
       ELSE CheckDbScheme(p, r.contents,
                          DbSchemeCount(r.contents.datasetUri.path, p, lay))

\* ---------------- Resolver specification --------------------------

SrcOptions == {{}, {"src"}, {"src.zip"}, {"src", "src.zip"},
               {"output/src_archive"}, {"output/src_archive.zip"},
               {"src.zip", "output/src_archive"}}

Layouts == [exists: BOOLEAN, topDb: 0..MaxCount, workDb: 0..MaxCount,
            rootSchema: 0..MaxCount, dsSchema: 0..MaxCount, src: SrcOptions]

InputUris == {UriFile("/w/db1"), [scheme |-> "http", path |-> "/w/db1"]}

\* The result slot before the call has returned.
RPending == [ok |-> FALSE, contents |-> NoContents, err |-> [type |-> "pending", msg |-> <<>>]]


RInit ==
  /\ rUri \in InputUris
  /\ rLay \in Layouts
  /\ rRes = RPending

\* One call of resolveDatabaseContents on the drawn input.
Resolve ==
  /\ rRes = RPending
  /\ rRes' = ResolveDatabaseContents(rUri, rLay)
  /\ UNCHANGED <<rUri, rLay>>
  /\ UNCHANGED <<svars, gvars>>
  /\ UNCHANGED <<svars, gvars>>


\* Helpers over the drawn resolver input.
RPath == rUri.path
DatasetFound == rUri.scheme = "file" /\ rLay.exists /\ FindDataset(RPath, rLay).ok
FoundDataset == FindDataset(RPath, rLay).contents.path
InMsg(x) == \E i \in 1..Len(rRes.err.msg) : rRes.err.msg[i] = x

\* C2: for an existing file path where the db-* search (root, then
\* root/working) finds nothing, resolution falls back to RawDataset:
\* with exactly one *.dbscheme file directly in the location it succeeds
\* with kind RawDataset, the location itself as dataset and no source
\* archive; otherwise it fails with InvalidDatabase.
C2_RawFallback ==
  (rRes # RPending /\ rUri.scheme = "file" /\ rLay.exists
     /\ rLay.topDb = 0 /\ rLay.workDb = 0)
  => IF rLay.rootSchema = 1
     THEN /\ rRes.ok
          /\ rRes.contents.kind = RawDataset
          /\ rRes.contents.datasetUri = rUri
          /\ rRes.contents.sourceArchiveUri = NoUri
     ELSE ~rRes.ok /\ rRes.err.type = "InvalidDatabase"

\* C8 (as stated): every returned contents has exactly one schema file
\* inside its dataset location; a dataset directory with zero or more
\* than one schema file makes resolution fail with InvalidDatabase whose
\* message names the dataset path and the number of schema files.
C8_SchemaOriginal ==
  rRes # RPending =>
    /\ rRes.ok => /\ DbSchemeCount(rRes.contents.datasetUri.path, RPath, rLay) = 1
                 /\ rRes.contents.dbSchemeUri = UriFile(PathResolve(rRes.contents.datasetUri.path, "x.dbscheme"))
    /\ (DatasetFound /\ rLay.dsSchema # 1)
         => /\ ~rRes.ok /\ rRes.err.type = "InvalidDatabase"
            /\ InMsg(FoundDataset) /\ InMsg(NumStr(rLay.dsSchema))

\* ---------------- DatabaseItemImpl.resolveSourceFile --------------
\* Paths are sequences of characters here, so that the string
\* rewriting of resolveSourceFile can be followed.

Chars == {"/", ":", "a"}

Strs == UNION {[1..n -> Chars] : n \in 0..MaxLen}

\* A uri with a character-sequence path and fragment.
SUri(sch, pth, frag) == [scheme |-> sch, authority |-> <<>>, path |-> pth, fragment |-> frag]

SNoUri == SUri("none", <<>>, <<>>)

\* The database location and the source archives findSourceArchive
\* produces for it (`<db>/src` directory, `<db>/src.zip` archive).
SDbUri == SUri("file", <<"/", "d">>, <<>>)
SArchiveDir == SUri("file", <<"/", "d", "/", "s">>, <<>>)
SArchiveZip == SUri(zipArchiveScheme, <<"/", "d", "/", "z">>, <<>>)

\* vscode.Uri.file(path): a path starting with "//" is a UNC path whose
\* authority runs up to the next '/' (the path then being the rest, or
\* "/"); the path of a file uri is made absolute with a leading '/'.
SUriFile(f) ==
  IF Len(f) >= 2 /\ f[1] = "/" /\ f[2] = "/"
  THEN IF \E i \in 3..Len(f) : f[i] = "/"
       THEN LET idx == CHOOSE i \in 3..Len(f) : f[i] = "/" /\ \A k \in 3..(i-1) : f[k] # "/"
            IN [scheme |-> "file", authority |-> SubSeq(f, 3, idx - 1),
                path |-> SubSeq(f, idx, Len(f)), fragment |-> <<>>]
       ELSE [scheme |-> "file", authority |-> SubSeq(f, 3, Len(f)),
             path |-> <<"/">>, fragment |-> <<>>]
  ELSE IF Len(f) > 0 /\ f[1] = "/" THEN SUri("file", f, <<>>)
  ELSE SUri("file", <<"/">> \o f, <<>>)

\* file.replace(/^\/*/, '')
RECURSIVE StripLeadingSlashes(_)
StripLeadingSlashes(f) ==
  IF Len(f) > 0 /\ f[1] = "/" THEN StripLeadingSlashes(Tail(f)) ELSE f

\* str.replace(':', '_') with a string pattern: the first occurrence only.
ReplaceFirstColon(f) ==
  IF \E i \in 1..Len(f) : f[i] = ":"
  THEN LET i == CHOOSE j \in 1..Len(f) : f[j] = ":" /\ \A k \in 1..(j-1) : f[k] # ":"
       IN [f EXCEPT ![i] = "_"]
  ELSE f

\* DatabaseItemImpl.sourceArchive
SourceArchive(ignoreSourceArchive, hasContents, sourceArchiveUri) ==
  IF ignoreSourceArchive \/ ~hasContents THEN SNoUri ELSE sourceArchiveUri

\* DatabaseItemImpl.resolveSourceFile(file); `present` is file !== undefined.
ResolveSourceFile(sa, databaseUri, present, file) ==
  IF sa = SNoUri
  THEN IF present THEN SUriFile(file) ELSE databaseUri
  ELSE IF present
       THEN LET relativeFilePath == ReplaceFirstColon(StripLeadingSlashes(file)) IN
            IF sa.scheme = zipArchiveScheme
            THEN [sa EXCEPT !.fragment = relativeFilePath]
            ELSE LET base == IF Len(sa.path) > 0 /\ sa.path[Len(sa.path)] = "/"
                             THEN sa.path ELSE sa.path \o <<"/">>
                 IN [sa EXCEPT !.path = base \o relativeFilePath]
       ELSE sa


SPending == SUri("pending", <<>>, <<>>)

SInit ==
  /\ sIgn \in BOOLEAN
  /\ sHasContents \in BOOLEAN
  /\ sArchive \in {SNoUri, SArchiveDir, SArchiveZip}
  /\ sPresent \in BOOLEAN
  /\ sFile \in IF sPresent THEN Strs ELSE {<<>>}
  /\ sRes = SPending

\* One call of resolveSourceFile on the drawn item and input.
ResolveSource ==
  /\ sRes = SPending
  /\ sRes' = ResolveSourceFile(SourceArchive(sIgn, sHasContents, sArchive), SDbUri, sPresent, sFile)
  /\ UNCHANGED <<sIgn, sHasContents, sArchive, sPresent, sFile>>
  /\ UNCHANGED <<rvars, gvars>>
  /\ UNCHANGED <<rvars, gvars>>


\* ---------------- DatabaseManager ---------------------------------

\* Database locations (uri.toString(true) of file uris).
Locs == {"/w/db1", "/w/t.testproj"}

NoLoc == "none"

\* Layouts a database location can have on disk while the registry runs:
\* a valid database with a `src` directory, or a path that is gone.
GoodLay == [exists |-> TRUE, topDb |-> 1, workDb |-> 0, rootSchema |-> 0,
            dsSchema |-> 1, src |-> {"src"}]
GoneLay == [exists |-> FALSE, topDb |-> 0, workDb |-> 0, rootSchema |-> 0,
            dsSchema |-> 0, src |-> {}]
RegLayouts == {GoodLay, GoneLay}

Ids == 1..MaxItems

\* Persisted DB_LIST entries: {uri, options.ignoreSourceArchive}.
PEntries == [uri: Locs, ign: {FALSE}]
PersistedLists == {<<>>} \cup {<<e>> : e \in PEntries}
                  \cup {<<e, f>> : e \in PEntries, f \in PEntries}


\* Notifications: _onDidChangeDatabaseItem.fire(item | undefined) and
\* _onDidChangeCurrentDatabaseItem.fire(item).
ItemEv(id) == [kind |-> "item", item |-> id]
ListEv == [kind |-> "item", item |-> 0]
CurEv(id) == [kind |-> "current", item |-> id]

Op(o, id, ok) == [op |-> o, item |-> id, ok |-> ok]

Range(f) == {f[i] : i \in DOMAIN f}

\* _currentDatabaseItem.databaseUri.toString(true), or undefined.
LocOf(id) == IF id = 0 THEN NoLoc ELSE iUri[id]

\* updatePersistedDatabaseList(): _databaseItems.map(getPersistedState)
PersistedList(its, u, ig) == [i \in 1..Len(its) |-> [uri |-> u[its[i]], ign |-> ig[its[i]]]]

\* An in-flight resolveDatabaseContents(l) on behalf of `caller` (item 0
\* for openDatabase); `seen` holds the layouts location l has had since
\* the call started, since each of its awaited probes (pathExists, the
\* globs, findSourceArchive's pathExists calls) reads the disk anew.
\* Once the refresh awaited by setCurrentDatabaseItem has returned,
\* `fired` holds the notification its `finally` fired.
Task(id, l, caller) == [item |-> id, loc |-> l, caller |-> caller, stage |-> "resolving",
                        ok |-> FALSE, seen |-> {disk[l]}, fired |-> <<>>]

\* The items constructed so far: a caller may hold any of them, also one
\* already removed from the list.
Created == 1..(nextId - 1)

RECURSIVE CopiesOf(_)
CopiesOf(S) ==
  IF S = {} THEN 0
  ELSE LET t == CHOOSE x \in S : TRUE IN CopiesIn(t, tasks) + CopiesOf(S \ {t})

\* In-flight calls started by `callers`.
InFlight(callers) == CopiesOf({t \in BagToSet(tasks) : t.caller \in callers})

\* The refresh() of `id` starts and suspends in resolveDatabaseContents.
StartRefresh(id, caller) == tasks' = tasks (+) SetToBag({Task(id, iUri[id], caller)})

SrcCandidates == {"src", "src.zip", "output/src_archive", "output/src_archive.zip"}

\* The layouts the probes of one resolveDatabaseContents call can observe
\* together when the disk takes the layouts S while it runs: each probe
\* reads one of them (the disk may change any number of times between
\* two awaits).
MixedLayouts(S) ==
  {[exists |-> a.exists, topDb |-> b.topDb, workDb |-> c.workDb,
    rootSchema |-> d.rootSchema, dsSchema |-> e.dsSchema, src |-> src] :
     a \in S, b \in S, c \in S, d \in S, e \in S,
     src \in {T \in SUBSET SrcCandidates :
               \A x \in SrcCandidates : \E L \in S : (x \in T) = (x \in L.src)}}

\* A change of location l to layout lay is seen by the resolutions of l
\* in flight.
SeeLayout(t, l, lay) ==
  IF t.stage = "resolving" /\ t.loc = l THEN [t EXCEPT !.seen = @ \cup {lay}] ELSE t

\* The state after the constructor: loadPersistedState() has run up to
\* its first await, after createDatabaseItemFromPersistedState of the
\* first persisted entry has added that item.
GInit ==
  /\ disk \in [Locs -> RegLayouts]
  /\ lList \in PersistedLists
  /\ lCur \in Locs \cup {NoLoc}
  /\ pCur = lCur
  /\ current = 0
  /\ tasks = EmptyBag
  /\ lOks = <<>>
  /\ lastOp = Op("init", 0, TRUE)
  /\ iContents = [i \in Ids |-> NoContents]
  /\ iError = [i \in Ids |-> NoError]
  /\ IF Len(lList) = 0
     THEN /\ items = <<>>
          /\ iUri = [i \in Ids |-> NoLoc]
          /\ iIgn = [i \in Ids |-> FALSE]
          /\ nextId = 1
          /\ pList = <<>>
          /\ lpc = "done"
          /\ lIds = <<>>
          /\ ev = <<>>
     ELSE /\ items = <<1>>
          /\ iUri = [i \in Ids |-> IF i = 1 THEN lList[1].uri ELSE NoLoc]
          /\ iIgn = [i \in Ids |-> i = 1 /\ lList[1].ign]
          /\ nextId = 2
          /\ pList = <<lList[1]>>
          /\ lpc = "created"
          /\ lIds = <<1>>
          /\ ev = <<ListEv>>

\* An openDatabase that registers the item, carrying the error, when
\* resolution fails.
OpenDatabaseMut(t, lay) ==
  LET l == t.loc
      r == ResolveDatabaseContents(UriFile(l), lay)
      id == nextId
      ign == ExtName(l) = ".testproj"
  IN
  /\ t.caller = "open" /\ t.stage = "resolving"
  /\ nextId <= MaxItems
  /\ iUri' = [iUri EXCEPT ![id] = l]
  /\ iIgn' = [iIgn EXCEPT ![id] = ign]
  /\ iContents' = [iContents EXCEPT ![id] = r.contents]
  /\ iError' = [iError EXCEPT ![id] = r.err]
  /\ nextId' = nextId + 1
  /\ items' = Append(items, id)
  /\ pList' = PersistedList(items', iUri', iIgn')
  /\ ev' = <<ListEv>>
  /\ lastOp' = Op("open", IF r.ok THEN id ELSE 0, r.ok)
  /\ tasks' = tasks (-) SetToBag({t})
  /\ UNCHANGED <<disk, current, pCur, lpc, lList, lCur, lIds, lOks>>
  /\ UNCHANGED <<rvars, svars>>

\* An openDatabase that returns the listed item for an already open location.
OpenDatabaseDedup(t, lay) ==
  LET l == t.loc
      r == ResolveDatabaseContents(UriFile(l), lay)
      id == nextId
      ign == ExtName(l) = ".testproj"
      old == {i \in Range(items) : iUri[i] = l}
  IN
  /\ t.caller = "open" /\ t.stage = "resolving"
  /\ nextId <= MaxItems
  /\ IF ~r.ok
     THEN /\ lastOp' = Op("open", 0, FALSE)
          /\ ev' = <<>>
          /\ UNCHANGED <<items, iUri, iIgn, iContents, iError, nextId, pList>>
     ELSE IF old # {}
     THEN /\ lastOp' = Op("open", CHOOSE i \in old : TRUE, TRUE)
          /\ ev' = <<>>
          /\ UNCHANGED <<items, iUri, iIgn, iContents, iError, nextId, pList>>
     ELSE /\ iUri' = [iUri EXCEPT ![id] = l]
          /\ iIgn' = [iIgn EXCEPT ![id] = ign]
          /\ iContents' = [iContents EXCEPT ![id] = r.contents]
          /\ iError' = [iError EXCEPT ![id] = NoError]
          /\ nextId' = nextId + 1
          /\ items' = Append(items, id)
          /\ pList' = PersistedList(items', iUri', iIgn')
          /\ ev' = <<ListEv>>
          /\ lastOp' = Op("open", id, TRUE)
  /\ tasks' = tasks (-) SetToBag({t})
  /\ UNCHANGED <<disk, current, pCur, lpc, lList, lCur, lIds, lOks>>
  /\ UNCHANGED <<rvars, svars>>

\* DatabaseManager.openDatabase(uri, options) resumes when the awaited
\* resolveDatabaseContents returns: only then is the item constructed and
\* added. Options are not given, so ignoreSourceArchive defaults to the
\* `.testproj` test.
OpenDatabase(t, lay) ==
  LET l == t.loc
      r == ResolveDatabaseContents(UriFile(l), lay)
      id == nextId
      ign == ExtName(l) = ".testproj"
  IN
  /\ t.caller = "open" /\ t.stage = "resolving"
  /\ nextId <= MaxItems
  /\ IF ~r.ok
     THEN /\ lastOp' = Op("open", 0, FALSE)
          /\ ev' = <<>>
          /\ UNCHANGED <<items, iUri, iIgn, iContents, iError, nextId, pList>>
     ELSE /\ iUri' = [iUri EXCEPT ![id] = l]
          /\ iIgn' = [iIgn EXCEPT ![id] = ign]
          /\ iContents' = [iContents EXCEPT ![id] = r.contents]
          /\ iError' = [iError EXCEPT ![id] = NoError]
          /\ nextId' = nextId + 1
          /\ items' = Append(items, id)
          /\ pList' = PersistedList(items', iUri', iIgn')
          /\ ev' = <<ListEv>>
          /\ lastOp' = Op("open", id, TRUE)
  /\ tasks' = tasks (-) SetToBag({t})
  /\ UNCHANGED <<disk, current, pCur, lpc, lList, lCur, lIds, lOks>>
  /\ UNCHANGED <<rvars, svars>>

\* DatabaseManager.openDatabase(uri) is called and suspends in
\* resolveDatabaseContents.
OpenCall ==
  \E l \in Locs :
    /\ InFlight({"open", "set"}) < MaxPending
    /\ tasks' = tasks (+) SetToBag({Task(0, l, "open")})
    /\ ev' = <<>>
    /\ lastOp' = Op("openStart", 0, TRUE)
    /\ UNCHANGED <<disk, items, iUri, iIgn, iContents, iError, nextId, current,
                   pCur, pList, lpc, lList, lCur, lIds, lOks>>
    /\ UNCHANGED <<rvars, svars>>

Open == \E t \in BagToSet(tasks) : \E lay \in MixedLayouts(t.seen) : OpenDatabase(t, lay)

\* DatabaseItemImpl.refresh(), as called by a user of the item: the call
\* starts and suspends in resolveDatabaseContents.
UserRefresh ==
  \E id \in Created :
    /\ InFlight({"user"}) < MaxRefreshes
    /\ StartRefresh(id, "user")
    /\ ev' = <<>>
    /\ lastOp' = Op("refreshStart", id, TRUE)
    /\ UNCHANGED <<disk, items, iUri, iIgn, iContents, iError, nextId, current,
                   pCur, pList, lpc, lList, lCur, lIds, lOks>>
    /\ UNCHANGED <<rvars, svars>>

\* A refresh() whose failure path keeps the previous contents.
RefreshFinishMut(t, lay) ==
  LET id == t.item
      r == ResolveDatabaseContents(UriFile(iUri[id]), lay)
  IN
  /\ t.stage = "resolving" /\ t.caller \in {"user", "set", "load"}
  /\ iContents' = [iContents EXCEPT ![id] = IF r.ok THEN r.contents ELSE iContents[id]]
  /\ iError' = [iError EXCEPT ![id] = IF r.ok THEN NoError ELSE r.err]
  /\ ev' = <<ItemEv(id)>>
  /\ lastOp' = Op("refreshDone", id, r.ok)
  /\ tasks' = (tasks (-) SetToBag({t}))
              (+) (IF t.caller = "set"
                   THEN SetToBag({[t EXCEPT !.stage = "returned", !.ok = r.ok, !.seen = {},
                                               !.fired = <<ItemEv(id)>>]})
                   ELSE EmptyBag)
  /\ IF t.caller = "load"
     THEN lpc' = "resume" /\ lOks' = Append(lOks, r.ok)
     ELSE UNCHANGED <<lpc, lOks>>
  /\ UNCHANGED <<disk, items, iUri, iIgn, nextId, current, pCur, pList,
                 lList, lCur, lIds>>
  /\ UNCHANGED <<rvars, svars>>

\* DatabaseItemImpl.refresh() resumes: _contents/_error are set from the
\* outcome of resolveDatabaseContents, onChanged(this) fires in the
\* `finally`, and a failure is re-thrown to the awaiting caller.
RefreshFinish(t, lay) ==
  LET id == t.item
      r == ResolveDatabaseContents(UriFile(iUri[id]), lay)
  IN
  /\ t.stage = "resolving" /\ t.caller \in {"user", "set", "load"}
  /\ iContents' = [iContents EXCEPT ![id] = IF r.ok THEN r.contents ELSE NoContents]
  /\ iError' = [iError EXCEPT ![id] = IF r.ok THEN NoError ELSE r.err]
  /\ ev' = <<ItemEv(id)>>
  /\ lastOp' = Op("refreshDone", id, r.ok)
  /\ tasks' = (tasks (-) SetToBag({t}))
              (+) (IF t.caller = "set"
                   THEN SetToBag({[t EXCEPT !.stage = "returned", !.ok = r.ok, !.seen = {},
                                               !.fired = <<ItemEv(id)>>]})
                   ELSE EmptyBag)
  /\ IF t.caller = "load"
     THEN lpc' = "resume" /\ lOks' = Append(lOks, r.ok)
     ELSE UNCHANGED <<lpc, lOks>>
  /\ UNCHANGED <<disk, items, iUri, iIgn, nextId, current, pCur, pList,
                 lList, lCur, lIds>>
  /\ UNCHANGED <<rvars, svars>>

Refresh == \E t \in BagToSet(tasks) : \E lay \in MixedLayouts(t.seen) : RefreshFinish(t, lay)

\* A setCurrentDatabaseItem tail without the `!==` comparison.
SetCurrentTailMut(id) ==
  /\ current' = id
  /\ pCur' = LocOf(id)
  /\ ev' = <<CurEv(id)>>

\* The synchronous tail of setCurrentDatabaseItem(item): when the
\* reference changes, updatePersistedCurrentDatabaseItem() and fire.
SetCurrentTail(id) ==
  IF current # id
  THEN /\ current' = id
       /\ pCur' = LocOf(id)
       /\ ev' = <<CurEv(id)>>
  ELSE /\ UNCHANGED <<current, pCur>>
       /\ ev' = <<>>

\* DatabaseManager.setCurrentDatabaseItem(item, skipRefresh) called by a
\* user: with an item and skipRefresh false it awaits item.refresh();
\* otherwise it runs to completion at once.
SetCurrentDatabaseItem(id, skip) ==
  /\ IF id # 0 /\ ~skip
     THEN /\ InFlight({"open", "set"}) < MaxPending
          /\ StartRefresh(id, "set")
          /\ ev' = <<>>
          /\ lastOp' = Op("refreshStart", id, TRUE)
          /\ UNCHANGED <<current, pCur>>
     ELSE /\ SetCurrentTail(id)
          /\ lastOp' = Op("setCurrent", id, TRUE)
          /\ UNCHANGED tasks
  /\ UNCHANGED <<disk, items, iUri, iIgn, iContents, iError, nextId, pList,
                 lpc, lList, lCur, lIds, lOks>>
  /\ UNCHANGED <<rvars, svars>>

SetCurrent == \E id \in {0} \cup Created, skip \in BOOLEAN : SetCurrentDatabaseItem(id, skip)

\* setCurrentDatabaseItem resumes after `await item.refresh()`: a
\* rejected refresh propagates to the caller before the tail runs.
SetCurrentResume(t) ==
  /\ t.stage = "returned"
  /\ tasks' = tasks (-) SetToBag({t})
  /\ IF t.ok
     THEN SetCurrentTail(t.item)
     ELSE UNCHANGED <<current, pCur>> /\ ev' = <<>>
  /\ lastOp' = Op("setCurrent", t.item, t.ok)
  /\ UNCHANGED <<disk, items, iUri, iIgn, iContents, iError, nextId, pList,
                 lpc, lList, lCur, lIds, lOks>>
  /\ UNCHANGED <<rvars, svars>>

SetResume == \E t \in BagToSet(tasks) : SetCurrentResume(t)

\* Array.prototype.splice(index, 1) at the first index holding `id`.
RemoveFirst(s, id) ==
  IF \E i \in 1..Len(s) : s[i] = id
  THEN LET i == CHOOSE j \in 1..Len(s) : s[j] = id /\ \A k \in 1..(j-1) : s[k] # id
       IN SubSeq(s, 1, i-1) \o SubSeq(s, i+1, Len(s))
  ELSE s

\* DatabaseManager.removeDatabaseItem(item)
RemoveDatabaseItem(id) ==
  /\ current' = IF current = id THEN 0 ELSE current
  /\ items' = RemoveFirst(items, id)
  /\ pList' = PersistedList(items', iUri, iIgn)
  /\ ev' = <<ListEv>>
  /\ lastOp' = Op("remove", id, TRUE)
  /\ UNCHANGED <<disk, iUri, iIgn, iContents, iError, nextId, pCur, tasks,
                 lpc, lList, lCur, lIds, lOks>>
  /\ UNCHANGED <<rvars, svars>>

Remove == \E id \in Created : RemoveDatabaseItem(id)

\* A database directory among `L` appears or disappears on disk.
DiskChangeAt(L) ==
  \E l \in L, lay \in RegLayouts :
    /\ disk[l] # lay
    /\ disk' = [disk EXCEPT ![l] = lay]
    /\ tasks' = BagOfAll(LAMBDA t : SeeLayout(t, l, lay), tasks)
    /\ ev' = <<>>
    /\ lastOp' = Op("disk", 0, TRUE)
    /\ UNCHANGED <<items, iUri, iIgn, iContents, iError, nextId, current, pCur,
                   pList, lpc, lList, lCur, lIds, lOks>>
    /\ UNCHANGED <<rvars, svars>>

\* The database directory appears or disappears on disk.
DiskChange == DiskChangeAt(Locs)

\* loadPersistedState resumes after awaiting
\* createDatabaseItemFromPersistedState and calls databaseItem.refresh().
LoadRefresh ==
  /\ lpc = "created"
  /\ lpc' = "refreshing"
  /\ StartRefresh(lIds[Len(lIds)], "load")
  /\ ev' = <<>>
  /\ lastOp' = Op("refreshStart", lIds[Len(lIds)], TRUE)
  /\ UNCHANGED <<disk, items, iUri, iIgn, iContents, iError, nextId, current,
                 pCur, pList, lList, lCur, lIds, lOks>>
  /\ UNCHANGED <<rvars, svars>>

\* A load loop that makes the matching entry current even when its
\* refresh failed.
LoadResumeMut ==
  LET k == Len(lIds)
      id == lIds[k]
      doSet == lCur = lList[k].uri /\ current # id
      setEv == IF doSet THEN <<CurEv(id)>> ELSE <<>>
  IN
  /\ lpc = "resume"
  /\ current' = IF doSet THEN id ELSE current
  /\ pCur' = IF doSet THEN iUri[id] ELSE pCur
  /\ lastOp' = Op("loadResume", id, lOks[k])
  /\ IF k < Len(lList)
     THEN LET nid == nextId
              e == lList[k + 1]
          IN /\ nextId <= MaxItems
             /\ iUri' = [iUri EXCEPT ![nid] = e.uri]
             /\ iIgn' = [iIgn EXCEPT ![nid] = e.ign]
             /\ nextId' = nextId + 1
             /\ items' = Append(items, nid)
             /\ pList' = PersistedList(items', iUri', iIgn')
             /\ lIds' = Append(lIds, nid)
             /\ lpc' = "created"
             /\ ev' = setEv \o <<ListEv>>
     ELSE /\ lpc' = "done"
          /\ ev' = setEv
          /\ UNCHANGED <<iUri, iIgn, nextId, items, pList, lIds>>
  /\ UNCHANGED <<disk, iContents, iError, tasks, lList, lCur, lOks>>
  /\ UNCHANGED <<rvars, svars>>

\* loadPersistedState resumes after `await databaseItem.refresh()`: on
\* success and a matching uri, setCurrentDatabaseItem(item, true); then the
\* next iteration runs createDatabaseItemFromPersistedState up to its await.
LoadResume ==
  LET k == Len(lIds)
      id == lIds[k]
      doSet == lOks[k] /\ lCur = lList[k].uri /\ current # id
      setEv == IF doSet THEN <<CurEv(id)>> ELSE <<>>
  IN
  /\ lpc = "resume"
  /\ current' = IF doSet THEN id ELSE current
  /\ pCur' = IF doSet THEN iUri[id] ELSE pCur
  /\ lastOp' = Op("loadResume", id, lOks[k])
  /\ IF k < Len(lList)
     THEN LET nid == nextId
              e == lList[k + 1]
          IN /\ nextId <= MaxItems
             /\ iUri' = [iUri EXCEPT ![nid] = e.uri]
             /\ iIgn' = [iIgn EXCEPT ![nid] = e.ign]
             /\ nextId' = nextId + 1
             /\ items' = Append(items, nid)
             /\ pList' = PersistedList(items', iUri', iIgn')
             /\ lIds' = Append(lIds, nid)
             /\ lpc' = "created"
             /\ ev' = setEv \o <<ListEv>>
     ELSE /\ lpc' = "done"
          /\ ev' = setEv
          /\ UNCHANGED <<iUri, iIgn, nextId, items, pList, lIds>>
  /\ UNCHANGED <<disk, iContents, iError, tasks, lList, lCur, lOks>>
  /\ UNCHANGED <<rvars, svars>>

\* ---------------- Specifications ----------------------------------

RFixed == rUri = UriFile("/w/db1") /\ rLay = GoodLay /\ rRes = RPending

SFixed == /\ sIgn = FALSE /\ sHasContents = FALSE /\ sArchive = SNoUri
          /\ sPresent = FALSE /\ sFile = <<>> /\ sRes = SPending

\* A fresh workspace: nothing persisted, every location valid.
GFixed == GInit /\ lList = <<>> /\ lCur = NoLoc /\ disk = [l \in Locs |-> GoodLay]

RNext == Resolve

RSpecInit == RInit /\ SFixed /\ GFixed

RSpec == RSpecInit /\ [][RNext]_vars

SNext == ResolveSource

SSpecInit == SInit /\ RFixed /\ GFixed

SSpec == SSpecInit /\ [][SNext]_vars

\* The registry: user operations interleaved with the startup load.
Next == OpenCall \/ Open \/ UserRefresh \/ Refresh \/ SetCurrent \/ SetResume
        \/ Remove \/ DiskChange \/ LoadRefresh \/ LoadResume

Init == RFixed /\ SFixed /\ GInit

Spec == Init /\ [][Next]_vars

\* loadPersistedState running on its own while the disk may change.
LoadNext == LoadRefresh \/ Refresh \/ LoadResume \/ DiskChange

LoadSpec == Init /\ [][LoadNext]_vars

\* User operations on a fresh workspace: nothing persisted.
UserNext == OpenCall \/ Open \/ Refresh \/ SetCurrent \/ SetResume \/ Remove \/ DiskChange

FreshInit == Init /\ lList = <<>> /\ lCur = NoLoc

FreshSpec == FreshInit /\ [][UserNext]_vars

\* A persisted item refreshed by its users, and by the startup load,
\* while its directory comes and goes.
ItemNext == UserRefresh \/ Refresh \/ DiskChange \/ LoadRefresh \/ LoadResume

ItemInit == Init /\ Len(lList) = 1 /\ lCur = NoLoc

ItemSpec == ItemInit /\ [][ItemNext]_vars

\* setCurrentDatabaseItem on the items of a two-entry persisted list (both
\* at /w/db1), interleaved with the startup load, while that directory
\* comes and goes.
SetNext == SetCurrent \/ SetResume \/ Refresh \/ DiskChangeAt({"/w/db1"}) \/ LoadRefresh \/ LoadResume

SetInit ==
  /\ Init
  /\ lList = <<[uri |-> "/w/db1", ign |-> FALSE], [uri |-> "/w/db1", ign |-> FALSE]>>
  /\ lCur = NoLoc
  /\ disk = [l \in Locs |-> GoodLay]

SetSpec == SetInit /\ [][SetNext]_vars

\* openDatabase calls on a fresh workspace while directories come and go.
OpenNext == OpenCall \/ Open \/ DiskChange

OpenSpec == FreshInit /\ [][OpenNext]_vars

\* ---------------- Claims over the registry -------------------------

OpenFailed == lastOp'.op = "open" /\ ~lastOp'.ok

\* C1 (as stated): when open(location) fails to resolve, the failure
\* reaches the caller and the item is still appended to the list and to
\* the persisted database list, carrying the error.
C1_OpenFailRegisters ==
  [][OpenFailed =>
       /\ Len(items') = Len(items) + 1
       /\ iError'[items'[Len(items')]] # NoError
       /\ pList' = PersistedList(items', iUri', iIgn')]_vars

\* C1 (amended): when open(location) fails to resolve, the failure reaches
\* the caller and nothing is registered: the list, the persisted state and
\* the current item are unchanged and no notification fires.
C1_OpenFailPropagates ==
  [][OpenFailed =>
       /\ UNCHANGED <<items, nextId, pList, current, pCur>>
       /\ ev' = <<>>]_vars

\* Witness of C1: an open whose resolution failed.
C1_Witness == lastOp.op = "open" /\ ~lastOp.ok

\* C3: removing the current item leaves no current item, makes the
\* persisted current location absent, drops the item from the persisted
\* list and then fires the list-changed notification.
C3_RemoveCurrent ==
  [][(lastOp'.op = "remove" /\ current # 0 /\ lastOp'.item = current) =>
       /\ current' = 0
       /\ pCur' = NoLoc
       /\ lastOp'.item \notin Range(items')
       /\ pList' = PersistedList(items', iUri', iIgn')
       /\ ev' = <<ListEv>>]_vars

\* C4: whenever a notification is delivered, the persisted database list
\* equals the in-memory list and the persisted current location is the
\* current item's location (absent iff there is no current item).
C4_PersistConsistent ==
  ev # <<>> =>
    /\ pList = PersistedList(items, iUri, iIgn)
    /\ pCur = LocOf(current)

\* C5: a finished refresh() sets contents to the result of its own
\* resolution and clears the error on success, clears contents and stores
\* (and re-throws) the error on failure, and fires exactly one
\* notification naming the item; the resolution reads the layouts the
\* location had while it ran, so on an unchanged database it is the
\* resolution of the on-disk state and two refreshes agree.
RefreshOutcome(id, lay) ==
  LET r == ResolveDatabaseContents(UriFile(iUri[id]), lay) IN
  /\ iContents'[id] = IF r.ok THEN r.contents ELSE NoContents
  /\ iError'[id] = IF r.ok THEN NoError ELSE r.err
  /\ lastOp'.ok = r.ok

C5_Refresh ==
  [][lastOp'.op = "refreshDone" =>
       LET id == lastOp'.item IN
       /\ \E t \in BagToSet(tasks) :
            /\ t.item = id /\ t.stage = "resolving" /\ t.caller # "open"
            /\ \E lay \in MixedLayouts(t.seen) : RefreshOutcome(id, lay)
       /\ ev' = <<ItemEv(id)>>]_vars

\* Witness of C5: a refresh that failed.
C5_Witness == lastOp.op = "refreshDone" /\ ~lastOp.ok /\ iContents[lastOp.item] = NoContents

CurEvIn(e) == \E i \in 1..Len(e) : e[i].kind = "current"

\* The task of the setCurrentDatabaseItem call that resumes in this step
\* (none when the call ran to completion without awaiting a refresh).
SetCallTasks ==
  {t \in BagToSet(tasks) : t.stage = "returned" /\ t.item = lastOp'.item
                          /\ CopiesIn(t, tasks') < CopiesIn(t, tasks)}

\* The notifications fired by one whole setCurrentDatabaseItem call: the
\* one fired by its awaited refresh, then those of its tail.
SetCallEvents ==
  IF SetCallTasks = {} THEN ev' ELSE (CHOOSE t \in SetCallTasks : TRUE).fired \o ev'

\* C6 (as stated): a setCurrent call whose refresh fails leaves the current
\* item and persisted current location unchanged and fires no
\* current-change notification; a call that changes the reference
\* updates the persisted location and fires exactly one current-change
\* notification; setting the already-current item again fires no
\* notification.
C6_SetCurrentOriginal ==
  [][lastOp'.op = "setCurrent" =>
       LET id == lastOp'.item IN
       IF ~lastOp'.ok
       THEN current' = current /\ pCur' = pCur /\ ~CurEvIn(SetCallEvents)
       ELSE IF id # current
       THEN current' = id /\ pCur' = LocOf(id)
            /\ SelectSeq(SetCallEvents, LAMBDA e : e.kind = "current") = <<CurEv(id)>>
       ELSE current' = current /\ pCur' = pCur /\ SetCallEvents = <<>>]_vars

\* C6 (amended): as stated, except that setting the already-current item
\* again with skipRefresh false fires the item-change notification of its
\* refresh (and no current-change notification); every refreshing call
\* fires that notification exactly once, also when the refresh fails.
C6_SetCurrent ==
  [][lastOp'.op = "setCurrent" =>
       LET id == lastOp'.item
           refreshed == IF SetCallTasks = {} THEN <<>> ELSE <<ItemEv(id)>>
       IN
       IF ~lastOp'.ok
       THEN current' = current /\ pCur' = pCur /\ SetCallEvents = refreshed
       ELSE IF id # current
       THEN current' = id /\ pCur' = LocOf(id) /\ SetCallEvents = refreshed \o <<CurEv(id)>>
       ELSE current' = current /\ pCur' = pCur /\ SetCallEvents = refreshed]_vars

\* Witness of C6: with two items listed, a setCurrent call changed the
\* current item to one of them and fired the current-change notification.
C6_Witness ==
  /\ lastOp.op = "setCurrent" /\ lastOp.ok /\ lastOp.item # 0
  /\ ev = <<CurEv(lastOp.item)>>
  /\ Cardinality(Range(items)) = 2

LoadMatch(k) == lList[k].uri = lCur

\* C7: when loadPersistedState finishes, every persisted entry has been
\* reconstructed and kept in order, also those whose refresh failed; the
\* current item is an entry whose location is the persisted current
\* location and whose refresh succeeded, one exists if such an entry
\* exists, and there is none if no entry matches; making it current
\* fires no further refresh.
C7_Load ==
  /\ lpc = "done" =>
       /\ items = lIds
       /\ Len(lIds) = Len(lList)
       /\ \A k \in 1..Len(lIds) : iUri[lIds[k]] = lList[k].uri
       /\ current # 0 => \E k \in 1..Len(lIds) : lIds[k] = current /\ LoadMatch(k) /\ lOks[k]
       /\ (\E k \in 1..Len(lIds) : LoadMatch(k) /\ lOks[k]) => current # 0
       /\ (\A k \in 1..Len(lIds) : ~LoadMatch(k)) => current = 0
  /\ lastOp.op = "loadResume" => \A i \in 1..Len(ev) : ev[i].kind = "item" => ev[i].item = 0

\* Witness of C7: the load finished with a current item and a failed entry kept.
C7_Witness ==
  lpc = "done" /\ current # 0 /\ \E k \in 1..Len(lIds) : ~lOks[k]

\* C10 (as stated): no two items of the list have the same location.
C10_UniqueLocs ==
  \A i, j \in 1..Len(items) : i # j => iUri[items[i]] # iUri[items[j]]

\* C10 (amended): a successful open appends a new item at the end of the
\* list even when an item with the same location is already listed.
C10_OpenAppends ==
  [][(lastOp'.op = "open" /\ lastOp'.ok) =>
       /\ items' = Append(items, lastOp'.item)
       /\ lastOp'.item \notin Range(items)]_vars

\* Witness of C10: two listed items share a location.
C10_Witness ==
  \E i, j \in 1..Len(items) : i # j /\ iUri[items[i]] = iUri[items[j]]

\* ---------------- Claims over resolveSourceFile ---------------------

\* The sanitisation the claim describes: leading '/' removed, every ':'
\* replaced by '_'.
SanitizeAll(f) ==
  LET g == StripLeadingSlashes(f) IN
  [i \in 1..Len(g) |-> IF g[i] = ":" THEN "_" ELSE g[i]]

\* The claim's reading of "returned verbatim as an absolute file path".
VerbatimFile(f) ==
  SUri("file", IF Len(f) > 0 /\ f[1] = "/" THEN f ELSE <<"/">> \o f, <<>>)

\* C9: with a source archive, the file is sanitised (leading '/' removed,
\* every ':' replaced by '_') and becomes the fragment of a zip archive or
\* is joined with one '/' to a directory archive, an absent file giving
\* the archive root; without one, a file is returned as an absolute file
\* uri and an absent file gives the database location.
C9_SourceFile ==
  sRes # SPending =>
    LET sa == SourceArchive(sIgn, sHasContents, sArchive) IN
    IF sa # SNoUri
    THEN IF sPresent
         THEN IF sa.scheme = zipArchiveScheme
              THEN sRes = [sa EXCEPT !.fragment = SanitizeAll(sFile)]
              ELSE sRes = [sa EXCEPT !.path = sa.path \o <<"/">> \o SanitizeAll(sFile)]
         ELSE sRes = sa
    ELSE IF sPresent THEN sRes = VerbatimFile(sFile) ELSE sRes = SDbUri

\* ---------------- Claims over interleavings -------------------------

\* C11: the current item is always absent or a member of the list.
C11_CurrentListed == current = 0 \/ current \in Range(items)

\* C12: under interleaved refresh() calls on one item, contents and error
\* are never both set; only a completing refresh changes an existing
\* item's contents/error pair, it sets the pair to the outcome of its own
\* resolution and fires one notification naming the item, so the pair is
\* the outcome of the last refresh to complete.
C12_ConcurrentRefresh ==
  /\ [](\A id \in Ids : ~(iContents[id] # NoContents /\ iError[id] # NoError))
  /\ [][/\ \A id \in 1..(nextId - 1) :
              (iContents'[id] # iContents[id] \/ iError'[id] # iError[id])
                => lastOp'.op = "refreshDone" /\ lastOp'.item = id
        /\ lastOp'.op = "refreshDone" =>
              LET id == lastOp'.item IN
              /\ \E t \in BagToSet(tasks) :
                   /\ t.item = id /\ t.stage = "resolving"
                   /\ t.caller # "open"
                   /\ \E lay \in MixedLayouts(t.seen) :
                        LET r == ResolveDatabaseContents(UriFile(iUri[id]), lay) IN
                        /\ iContents'[id] = IF r.ok THEN r.contents ELSE NoContents
                        /\ iError'[id] = IF r.ok THEN NoError ELSE r.err
              /\ ev' = <<ItemEv(id)>>]_vars

\* Witness of C12: a refresh of an item completed while another refresh
\* of the same item is still in flight.
C12_Witness ==
  lastOp.op = "refreshDone"
  /\ \E t \in BagToSet(tasks) : t.item = lastOp.item /\ t.stage = "resolving"
  /\ iError[lastOp.item] # NoError

====
